---- MODULE Spec2Model ----
(***************************************************************************)
(* vault-policies (src/main.go): backup, upload and restore of Vault       *)
(* policies between a directory of .hcl files and a Vault server.          *)
(*                                                                         *)
(* State: the server's policy store, the directory tree, and the position  *)
(* and local variables of the command that is running.  Every call of the  *)
(* Vault client and every file operation may fail; the code decides what   *)
(* happens then.  calls is the history of the calls the running command    *)
(* has made.                                                               *)
(***************************************************************************)
EXTENDS Naturals, Sequences, FiniteSets

VARIABLES
    remote,          \* the server's store: policy name -> document or NoDoc
    files,           \* the directory tree: file path -> content or NoDoc
    run,             \* number of commands started so far
    cmd,             \* the command running: "backup", "upload", "restore"
    dryRun,          \* the --dry-run flag of the running command
    pc,              \* position of the running command
    err,             \* the error the command returned ("nil": none)
    policies,        \* walkRemotePolicies: the names ListPolicies returned
    i,               \* walkRemotePolicies: number of names handled
    j,               \* filepath.Walk: number of entries visited
    remotePolicies,  \* restorePolicies: map built from the server
    localPolicies,   \* restorePolicies: map built from the directory
    delLeft,         \* restorePolicies: keys the first range loop has left
    putLeft,         \* restorePolicies: keys the second range loop has left
    calls,           \* history: the calls of the running command, in order
    remote0,         \* history: remote when the running command started
    files0,          \* history: files when the running command started
    prev             \* history: summary of the command that ran before

vars == << remote, files, run, cmd, dryRun, pc, err, policies, i, j,
           remotePolicies, localPolicies, delLeft, putLeft, calls,
           remote0, files0, prev >>

----------------------------------------------------------------------------
(* Bounds and universes *)

MaxRuns == 2

Docs == {"d1", "d2"}

\* A policy name is the sequence of its "/"-separated segments.
Names == { <<"a">>, <<"b">>, <<"s", "a">> }
NoName == << >>

\* A file path relative to the directory argument: the directories above
\* the file, then the file name split at its last dot.
File(dir, stem, ext) == [dir |-> dir, stem |-> stem, ext |-> ext]
Paths == { File(<< >>, "a", "hcl"), File(<< >>, "b", "hcl"),
           File(<< >>, "b", "txt"), File(<<"s">>, "a", "hcl") }
NoPath == File(<< >>, "", "")

Commands == {"backup", "upload", "restore"}

----------------------------------------------------------------------------
(* Maps: a Go map, the server's store and the directory are functions     *)
(* whose domain is the set of keys present.                               *)

EmptyMap == << >>
Put(m, k, v) == [x \in (DOMAIN m) \cup {k} |-> IF x = k THEN v ELSE m[x]]
Remove(m, k) == [x \in (DOMAIN m) \ {k} |-> m[x]]
Maps(K, V) == UNION { [S -> V] : S \in SUBSET K }

----------------------------------------------------------------------------
(* File names and policy names *)

\* Mutant of PolicyFile: the file is named after the last segment only.
PolicyFile_Base(policy) == File(<< >>, policy[Len(policy)], "hcl")

\* backupPolicies: filepath.Join(directory, policy+".hcl").  A "/" in the
\* policy name is a path separator of the joined path.
PolicyFile(policy) ==
    File(SubSeq(policy, 1, Len(policy) - 1), policy[Len(policy)], "hcl")

\* walkDirectoryPolicies: filepath.Ext(path) != ".hcl" skips the file.
IsPolicyFile(path) == path.ext = "hcl"

\* Mutant of PolicyName: the extension is not cut off.
PolicyName_KeepsExt(path) == << path.stem, path.ext >>

\* walkDirectoryPolicies: filepath.Base(path) without its extension.
PolicyName(path) == << path.stem >>

\* filepath.Walk visits the directory argument, then its entries in lexical
\* order, descending into a subdirectory when it meets it.
Entry(isDir, path) == [isDir |-> isDir, path |-> path]
WalkOrder ==
    << Entry(TRUE,  File(<< >>, ".", "")),
       Entry(FALSE, File(<< >>, "a", "hcl")),
       Entry(FALSE, File(<< >>, "b", "hcl")),
       Entry(FALSE, File(<< >>, "b", "txt")),
       Entry(TRUE,  File(<< >>, "s", "")),
       Entry(FALSE, File(<<"s">>, "a", "hcl")) >>

\* The directory argument exists; a subdirectory exists when a file is in it.
Exists(e, fs) ==
    IF e.isDir
    THEN \/ e.path.stem = "."
         \/ \E f \in DOMAIN fs : f.dir = Append(e.path.dir, e.path.stem)
    ELSE e.path \in DOMAIN fs

WalkEntries(fs) == SelectSeq(WalkOrder, LAMBDA e : Exists(e, fs))

\* The server lists its policy names in sorted order.
ListOrder == << <<"a">>, <<"b">>, <<"s", "a">> >>
Listing(store) == SelectSeq(ListOrder, LAMBDA n : n \in DOMAIN store)

\* The name -> document map that walking the directory fs yields: a later
\* file of the same name replaces an earlier one.
RECURSIVE Collect(_, _, _)
Collect(es, fs, m) ==
    IF es = << >> THEN m
    ELSE LET e == Head(es)
         IN  Collect(Tail(es), fs,
                     IF ~e.isDir /\ IsPolicyFile(e.path)
                     THEN Put(m, PolicyName(e.path), fs[e.path])
                     ELSE m)
LocalSet(fs) == Collect(WalkEntries(fs), fs, EmptyMap)

----------------------------------------------------------------------------
(* The history of calls *)

Call(op, policy, path, doc, ok) ==
    [op |-> op, policy |-> policy, path |-> path, doc |-> doc, ok |-> ok]
Log(c) == calls' = Append(calls, c)

ReadOps == {"Connect", "ListPolicies", "GetPolicy", "Walk", "ReadFile"}
WriteOps == {"WriteFile", "PutPolicy", "DeletePolicy"}

NoPrev == [cmd |-> "none", dryRun |-> FALSE, err |-> "nil",
           remote0 |-> EmptyMap, files0 |-> EmptyMap]

----------------------------------------------------------------------------
(* Initial state: any store, any directory, no command started *)

InitLocals ==
    /\ run = 0
    /\ cmd = "none"
    /\ dryRun = FALSE
    /\ pc = "idle"
    /\ err = "nil"
    /\ policies = << >>
    /\ i = 0
    /\ j = 0
    /\ remotePolicies = EmptyMap
    /\ localPolicies = EmptyMap
    /\ delLeft = {}
    /\ putLeft = {}
    /\ calls = << >>
    /\ remote0 = remote
    /\ files0 = files
    /\ prev = NoPrev

Init ==
    /\ remote \in Maps(Names, Docs)
    /\ files \in Maps(Paths, Docs)
    /\ InitLocals

\* The stores of the runs of several commands in a row: the policies a and
\* s/a, the files a.hcl, b.txt and s/a.hcl.
SeqNames == { <<"a">>, <<"s", "a">> }
SeqPaths == { File(<< >>, "a", "hcl"), File(<< >>, "b", "txt"),
              File(<<"s">>, "a", "hcl") }

InitSeq ==
    /\ remote \in Maps(SeqNames, Docs)
    /\ files \in Maps(SeqPaths, Docs)
    /\ InitLocals

\* main: app.Run dispatches one command with its flags; the command starts
\* with fresh local variables.
Begin ==
    /\ \E c \in Commands, d \in BOOLEAN :
        /\ cmd' = c
        /\ dryRun' = d
    /\ run' = run + 1
    /\ pc' = "connect"
    /\ err' = "nil"
    /\ policies' = << >>
    /\ i' = 0
    /\ j' = 0
    /\ remotePolicies' = EmptyMap
    /\ localPolicies' = EmptyMap
    /\ delLeft' = {}
    /\ putLeft' = {}
    /\ calls' = << >>
    /\ remote0' = remote
    /\ files0' = files
    /\ prev' = IF run = 0 THEN NoPrev
               ELSE [cmd |-> cmd, dryRun |-> dryRun, err |-> err,
                     remote0 |-> remote0, files0 |-> files0]
    /\ UNCHANGED << remote, files >>

\* The first invocation of the program.
Start ==
    /\ pc = "idle"
    /\ Begin

\* The program is invoked again after a command has returned, the directory
\* and the server left as that command left them.
Restart ==
    /\ pc = "done"
    /\ run < MaxRuns
    /\ Begin

\* The command returns e.
Return(e) ==
    /\ pc' = "done"
    /\ err' = e

\* selectNewVault: reading the token file or building the client may fail;
\* each command returns that error at once.
SelectNewVault ==
    /\ pc = "connect"
    /\ \/ /\ Log(Call("Connect", NoName, NoPath, "", FALSE))
          /\ Return("io")
       \/ /\ Log(Call("Connect", NoName, NoPath, "", TRUE))
          /\ pc' = IF cmd = "upload" THEN "walk" ELSE "list"
          /\ err' = err
    /\ UNCHANGED << remote, files, run, cmd, dryRun, policies, i, j,
                    remotePolicies, localPolicies, delLeft, putLeft,
                    remote0, files0, prev >>

----------------------------------------------------------------------------
(* walkRemotePolicies, with the callbacks of backupPolicies and            *)
(* restorePolicies                                                         *)

\* Where the command goes once k of the listed names ps are handled:
\* backupPolicies returns nil, restorePolicies walks the directory.
AfterRemote(k, ps) ==
    IF k < Len(ps) THEN "get"
    ELSE IF cmd = "backup" THEN "done" ELSE "walk"

\* client.Sys().ListPolicies(): an error is returned to the caller.
ListPolicies ==
    /\ pc = "list"
    /\ \/ /\ Log(Call("ListPolicies", NoName, NoPath, "", FALSE))
          /\ Return("vault")
          /\ UNCHANGED policies
       \/ /\ Log(Call("ListPolicies", NoName, NoPath, "", TRUE))
          /\ policies' = Listing(remote)
          /\ pc' = AfterRemote(0, Listing(remote))
          /\ err' = err
    /\ UNCHANGED << remote, files, run, cmd, dryRun, i, j, remotePolicies,
                    localPolicies, delLeft, putLeft, remote0, files0, prev >>

\* client.Sys().GetPolicy(policy) fails: walkRemotePolicies returns the
\* error and the command returns it.
GetPolicyFails ==
    /\ pc = "get"
    /\ Log(Call("GetPolicy", policies[i + 1], NoPath, "", FALSE))
    /\ Return("vault")
    /\ UNCHANGED << remote, files, run, cmd, dryRun, policies, i, j,
                    remotePolicies, localPolicies, delLeft, putLeft,
                    remote0, files0, prev >>

\* backupPolicies: one policy fetched and handed to the callback, which
\* prints it (dry run) or writes <policy>.hcl and returns a write error.
BackupPolicy ==
    /\ pc = "get"
    /\ cmd = "backup"
    /\ LET policy == policies[i + 1]
           content == remote[policy]
           got == Call("GetPolicy", policy, NoPath, content, TRUE)
           write(ok) == Call("WriteFile", NoName, PolicyFile(policy), content, ok)
       IN  \/ /\ dryRun
              /\ calls' = Append(calls, got)
              /\ i' = i + 1
              /\ pc' = AfterRemote(i + 1, policies)
              /\ UNCHANGED << files, err >>
           \/ /\ ~dryRun
              /\ calls' = Append(Append(calls, got), write(TRUE))
              /\ files' = Put(files, PolicyFile(policy), content)
              /\ i' = i + 1
              /\ pc' = AfterRemote(i + 1, policies)
              /\ err' = err
           \/ /\ ~dryRun
              /\ calls' = Append(Append(calls, got), write(FALSE))
              /\ Return("io")
              /\ UNCHANGED << files, i >>
    /\ UNCHANGED << remote, run, cmd, dryRun, policies, j, remotePolicies,
                    localPolicies, delLeft, putLeft, remote0, files0, prev >>

\* restorePolicies: one policy fetched and stored in remotePolicies.
RestoreRemotePolicy ==
    /\ pc = "get"
    /\ cmd = "restore"
    /\ LET policy == policies[i + 1]
           content == remote[policy]
       IN  /\ Log(Call("GetPolicy", policy, NoPath, content, TRUE))
           /\ remotePolicies' = Put(remotePolicies, policy, content)
    /\ i' = i + 1
    /\ pc' = AfterRemote(i + 1, policies)
    /\ UNCHANGED << remote, files, run, cmd, dryRun, err, policies, j,
                    localPolicies, delLeft, putLeft, remote0, files0, prev >>

----------------------------------------------------------------------------
(* walkDirectoryPolicies, with the callbacks of uploadPolicies and         *)
(* restorePolicies                                                         *)

\* Mutant of NeedsDelete: every policy of remotePolicies is deleted.
NeedsDelete_Always(policy) == TRUE

\* restorePolicies: a policy of remotePolicies is deleted from the server
\* when localPolicies has no such key.
NeedsDelete(policy) == policy \notin DOMAIN localPolicies

\* Mutant of NeedsPut: every policy of localPolicies is written.
NeedsPut_Always(policy) == TRUE

\* restorePolicies: a policy of localPolicies is written unless
\* remotePolicies holds the same content under the same key.
NeedsPut(policy) ==
    ~ (/\ policy \in DOMAIN remotePolicies
       /\ remotePolicies[policy] = localPolicies[policy])

\* Mutant of AfterLoops: the loop that writes runs before the loop that
\* deletes.
AfterLoops_PutFirst(ds, ps) ==
    IF ps # {} THEN "put" ELSE IF ds # {} THEN "delete" ELSE "done"

\* Where restorePolicies goes with the keys ds left to the first range loop
\* and ps left to the second.
AfterLoops(ds, ps) ==
    IF ds # {} THEN "delete" ELSE IF ps # {} THEN "put" ELSE "done"

\* Where the command goes once k entries are visited and the directory map
\* is local: uploadPolicies returns nil, restorePolicies starts its loops.
AfterWalk(k, local) ==
    IF k < Len(WalkEntries(files)) THEN "walk"
    ELSE IF cmd = "upload" THEN "done"
    ELSE AfterLoops(DOMAIN remotePolicies, DOMAIN local)

\* The walk moves on to the next entry, or ends.
NextEntry(local) ==
    /\ j' = j + 1
    /\ pc' = AfterWalk(j + 1, local)
    /\ delLeft' = IF AfterWalk(j + 1, local) = "walk" THEN delLeft
                  ELSE DOMAIN remotePolicies
    /\ putLeft' = IF AfterWalk(j + 1, local) = "walk" THEN putLeft
                  ELSE DOMAIN local
    /\ err' = err

\* filepath.Walk hands the callback an error (the entry cannot be read):
\* the callback returns it and the walk stops.
WalkFails ==
    /\ pc = "walk"
    /\ Log(Call("Walk", NoName, WalkEntries(files)[j + 1].path, "", FALSE))
    /\ Return("io")
    /\ UNCHANGED << remote, files, run, cmd, dryRun, policies, i, j,
                    remotePolicies, localPolicies, delLeft, putLeft,
                    remote0, files0, prev >>

\* The callback returns nil for a directory and for a file whose extension
\* is not .hcl.
WalkSkips ==
    /\ pc = "walk"
    /\ LET e == WalkEntries(files)[j + 1]
       IN  \/ e.isDir
           \/ ~e.isDir /\ ~IsPolicyFile(e.path)
    /\ NextEntry(localPolicies)
    /\ UNCHANGED << remote, files, run, cmd, dryRun, policies, i,
                    remotePolicies, localPolicies, calls,
                    remote0, files0, prev >>

\* os.ReadFile(path) fails: the callback returns the error.
ReadFileFails ==
    /\ pc = "walk"
    /\ LET e == WalkEntries(files)[j + 1]
       IN  /\ ~e.isDir
           /\ IsPolicyFile(e.path)
           /\ Log(Call("ReadFile", NoName, e.path, "", FALSE))
    /\ Return("io")
    /\ UNCHANGED << remote, files, run, cmd, dryRun, policies, i, j,
                    remotePolicies, localPolicies, delLeft, putLeft,
                    remote0, files0, prev >>

\* Mutant of UploadPolicy: the callback calls PutPolicy in a dry run too.
UploadPolicy_NoDryRun ==
    /\ pc = "walk"
    /\ cmd = "upload"
    /\ LET e == WalkEntries(files)[j + 1]
           policy == PolicyName(e.path)
           content == files[e.path]
           read == Call("ReadFile", NoName, e.path, content, TRUE)
           put(ok) == Call("PutPolicy", policy, NoPath, content, ok)
       IN  /\ ~e.isDir
           /\ IsPolicyFile(e.path)
           /\ \/ /\ calls' = Append(Append(calls, read), put(TRUE))
                 /\ remote' = Put(remote, policy, content)
              \/ /\ calls' = Append(Append(calls, read), put(FALSE))
                 /\ UNCHANGED remote
    /\ NextEntry(localPolicies)
    /\ UNCHANGED << files, run, cmd, dryRun, policies, i, remotePolicies,
                    localPolicies, remote0, files0, prev >>

\* uploadPolicies: a policy file read and handed to the callback, which
\* prints it (dry run) or calls PutPolicy, whose error it drops.
UploadPolicy ==
    /\ pc = "walk"
    /\ cmd = "upload"
    /\ LET e == WalkEntries(files)[j + 1]
           policy == PolicyName(e.path)
           content == files[e.path]
           read == Call("ReadFile", NoName, e.path, content, TRUE)
           put(ok) == Call("PutPolicy", policy, NoPath, content, ok)
       IN  /\ ~e.isDir
           /\ IsPolicyFile(e.path)
           /\ \/ /\ dryRun
                 /\ calls' = Append(calls, read)
                 /\ UNCHANGED remote
              \/ /\ ~dryRun
                 /\ calls' = Append(Append(calls, read), put(TRUE))
                 /\ remote' = Put(remote, policy, content)
              \/ /\ ~dryRun
                 /\ calls' = Append(Append(calls, read), put(FALSE))
                 /\ UNCHANGED remote
    /\ NextEntry(localPolicies)
    /\ UNCHANGED << files, run, cmd, dryRun, policies, i, remotePolicies,
                    localPolicies, remote0, files0, prev >>

\* restorePolicies: a policy file read and stored in localPolicies.
RestoreLocalPolicy ==
    /\ pc = "walk"
    /\ cmd = "restore"
    /\ LET e == WalkEntries(files)[j + 1]
           policy == PolicyName(e.path)
           content == files[e.path]
       IN  /\ ~e.isDir
           /\ IsPolicyFile(e.path)
           /\ Log(Call("ReadFile", NoName, e.path, content, TRUE))
           /\ localPolicies' = Put(localPolicies, policy, content)
           /\ NextEntry(Put(localPolicies, policy, content))
    /\ UNCHANGED << remote, files, run, cmd, dryRun, policies, i,
                    remotePolicies, remote0, files0, prev >>

----------------------------------------------------------------------------
(* restorePolicies: the two range loops.  Go ranges over a map in an        *)
(* unspecified order, each key once.                                       *)

\* for policy := range remotePolicies: DeletePolicy when the policy is not
\* in localPolicies; the error of DeletePolicy is dropped.
RestoreDelete ==
    /\ pc = "delete"
    /\ \E policy \in delLeft :
        /\ \/ /\ ~NeedsDelete(policy)
              /\ UNCHANGED << remote, calls >>
           \/ /\ NeedsDelete(policy)
              /\ dryRun
              /\ UNCHANGED << remote, calls >>
           \/ /\ NeedsDelete(policy)
              /\ ~dryRun
              /\ Log(Call("DeletePolicy", policy, NoPath, "", TRUE))
              /\ remote' = Remove(remote, policy)
           \/ /\ NeedsDelete(policy)
              /\ ~dryRun
              /\ Log(Call("DeletePolicy", policy, NoPath, "", FALSE))
              /\ UNCHANGED remote
        /\ delLeft' = delLeft \ {policy}
        /\ pc' = AfterLoops(delLeft \ {policy}, putLeft)
    /\ UNCHANGED << files, run, cmd, dryRun, err, policies, i, j,
                    remotePolicies, localPolicies, putLeft,
                    remote0, files0, prev >>

\* for policy := range localPolicies: PutPolicy unless the server held the
\* same content; the error of PutPolicy is dropped.
RestorePut ==
    /\ pc = "put"
    /\ \E policy \in putLeft :
        /\ \/ /\ ~NeedsPut(policy)
              /\ UNCHANGED << remote, calls >>
           \/ /\ NeedsPut(policy)
              /\ dryRun
              /\ UNCHANGED << remote, calls >>
           \/ /\ NeedsPut(policy)
              /\ ~dryRun
              /\ Log(Call("PutPolicy", policy, NoPath, localPolicies[policy], TRUE))
              /\ remote' = Put(remote, policy, localPolicies[policy])
           \/ /\ NeedsPut(policy)
              /\ ~dryRun
              /\ Log(Call("PutPolicy", policy, NoPath, localPolicies[policy], FALSE))
              /\ UNCHANGED remote
        /\ putLeft' = putLeft \ {policy}
        /\ pc' = AfterLoops(delLeft, putLeft \ {policy})
    /\ UNCHANGED << files, run, cmd, dryRun, err, policies, i, j,
                    remotePolicies, localPolicies, delLeft,
                    remote0, files0, prev >>

----------------------------------------------------------------------------

Next ==
    \/ Start
    \/ SelectNewVault
    \/ ListPolicies
    \/ GetPolicyFails
    \/ BackupPolicy
    \/ RestoreRemotePolicy
    \/ WalkFails
    \/ WalkSkips
    \/ ReadFileFails
    \/ UploadPolicy
    \/ RestoreLocalPolicy
    \/ RestoreDelete
    \/ RestorePut

\* One command, from any store and any directory.
Spec == Init /\ [][Next]_vars

\* Up to MaxRuns commands in a row.
NextSeq == Next \/ Restart
SpecSeq == InitSeq /\ [][NextSeq]_vars

----------------------------------------------------------------------------
(* What the claims speak of *)

Done == pc = "done"
Returned(c) == cmd = c /\ ~dryRun /\ Done /\ err = "nil"

\* The local policy set of the running command: the directory as it was when
\* the command started.
Local == LocalSet(files0)

CallsOf(op) == { k \in DOMAIN calls : calls[k].op = op }
CallsFor(op, n) == { k \in CallsOf(op) : calls[k].policy = n }
Deleted == { calls[k].policy : k \in CallsOf("DeletePolicy") }
Written == { calls[k].policy : k \in CallsOf("PutPolicy") }
Mutating == { k \in DOMAIN calls : calls[k].op \in WriteOps }

\* The local names whose document the server lacks or holds differently.
Stale == { n \in DOMAIN Local :
             n \notin DOMAIN remote0 \/ remote0[n] # Local[n] }
\* The names the server holds and the directory does not yield.
RemoteOnly == (DOMAIN remote0) \ (DOMAIN Local)

\* The file <p>.hcl of the directory, for a policy name p.
NamedAfter(p) == File(SubSeq(p, 1, Len(p) - 1), p[Len(p)], "hcl")

\* The previous command was c, not a dry run, and returned nil.
After(c) == run >= 2 /\ prev.cmd = c /\ ~prev.dryRun /\ prev.err = "nil"

----------------------------------------------------------------------------
(* C1: when restorePolicies(dryRun=false) returns without error, the      *)
(* server holds exactly the local policy set: the same names, each with   *)
(* its local document.  Refuted: the errors of DeletePolicy and PutPolicy *)
(* are dropped.                                                           *)
C1_RestoreMirrors ==
    Returned("restore") => remote = Local

(* C2: uploadPolicies issues no DeletePolicy and every name the server    *)
(* held before an upload is still held; restorePolicies(dryRun=false)     *)
(* issues DeletePolicy only for names the server listed and no .hcl file  *)
(* yields, and once it has returned nil it has issued it for all of them. *)
C2_DeletionCorrectness ==
    /\ cmd = "upload" =>
          /\ CallsOf("DeletePolicy") = {}
          /\ DOMAIN remote0 \subseteq DOMAIN remote
    /\ cmd = "restore" /\ ~dryRun =>
          /\ Deleted \subseteq { policies[k] : k \in DOMAIN policies }
          /\ Deleted \subseteq RemoteOnly
    /\ Returned("restore") => Deleted = RemoteOnly

C2_Witness ==
    /\ Returned("restore")
    /\ Deleted # {}
    /\ (DOMAIN remote0) \cap (DOMAIN Local) # {}

(* C3: when restorePolicies(dryRun=false) has returned nil and runs       *)
(* again on the unchanged directory, the second run issues no             *)
(* DeletePolicy and no PutPolicy and leaves the server as it found it.    *)
(* Refuted: a DeletePolicy or PutPolicy that failed in the first run was  *)
(* dropped, and the second run issues it again.                           *)
C3_MirrorIdempotent ==
    (After("restore") /\ cmd = "restore" /\ ~dryRun /\ files0 = prev.files0) =>
        /\ Mutating = {}
        /\ remote = remote0

(* C4, as stated: after backupPolicies(dryRun=false) and then             *)
(* uploadPolicies(dryRun=false) on the same directory, both returning     *)
(* nil, the server holds what it held before the backup, whatever the     *)
(* directory held.                                                        *)
C4_RoundTrip ==
    (After("backup") /\ Returned("upload")) => remote = prev.remote0

\* The directory before the backup held no .hcl file but top-level files
\* named after a policy of the server, and no policy name of the server has
\* a path separator.
C4_Plain ==
    /\ \A f \in DOMAIN prev.files0 :
          f.ext = "hcl" => f.dir = << >> /\ << f.stem >> \in DOMAIN prev.remote0
    /\ \A n \in DOMAIN prev.remote0 : Len(n) = 1

(* C4, amended: when no policy name of the server has a path separator,   *)
(* the directory holds no .hcl file other than top-level files named      *)
(* after a policy of the server, and backupPolicies(dryRun=false) returns *)
(* nil, uploadPolicies(dryRun=false) from that directory leaves the       *)
(* server, at every step and when it returns, with the documents it held  *)
(* before the backup.                                                     *)
C4_RoundTripPlain ==
    (After("backup") /\ C4_Plain /\ cmd = "upload" /\ ~dryRun) =>
        remote = prev.remote0

C4_Witness ==
    /\ After("backup")
    /\ C4_Plain
    /\ Returned("upload")
    /\ \E k \in CallsOf("PutPolicy") : calls[k].ok
    /\ \E f \in DOMAIN prev.files0 :
          f.ext = "hcl" /\ prev.files0[f] # prev.remote0[<< f.stem >>]
    /\ \E f \in DOMAIN prev.files0 : f.ext # "hcl"

(* C5: in a dry run no command writes a file or calls PutPolicy or        *)
(* DeletePolicy: the directory and the server stay as they were.          *)
C5_DryRunFrame ==
    dryRun => /\ Mutating = {}
              /\ remote = remote0
              /\ files = files0

C5_Witness ==
    /\ dryRun
    /\ Done
    /\ err = "nil"
    /\ cmd = "restore"
    /\ RemoteOnly # {}
    /\ Stale # {}

(* C6: a call that fails is the last call of the command, and the         *)
(* command returns a non-nil error.  Refuted: uploadPolicies and          *)
(* restorePolicies drop the errors of PutPolicy and DeletePolicy.         *)
C6_ErrorsAbort ==
    \A k \in DOMAIN calls :
        ~calls[k].ok => /\ k = Len(calls)
                        /\ Done
                        /\ err # "nil"

(* C7: when uploadPolicies(dryRun=false) returns without error, the       *)
(* server maps every name the directory yields to its local document and  *)
(* every other name to the document it had.  Refuted: the error of        *)
(* PutPolicy is dropped.                                                  *)
C7_UploadOverwrites ==
    Returned("upload") =>
        /\ \A n \in DOMAIN Local :
              n \in DOMAIN remote /\ remote[n] = Local[n]
        /\ \A n \in (DOMAIN remote0 \cup DOMAIN remote) \ DOMAIN Local :
              /\ n \in DOMAIN remote0 \cap DOMAIN remote
              /\ remote[n] = remote0[n]

(* C8: backupPolicies never changes the server; when                      *)
(* backupPolicies(dryRun=false) returns without error, the directory      *)
(* holds for every policy p of the server a file p.hcl with the server's  *)
(* document, and every other file is as it was.                           *)
C8_BackupOverwrites ==
    /\ cmd = "backup" => remote = remote0
    /\ Returned("backup") =>
          /\ \A p \in DOMAIN remote0 :
                /\ NamedAfter(p) \in DOMAIN files
                /\ files[NamedAfter(p)] = remote0[p]
          /\ \A f \in (DOMAIN files0 \cup DOMAIN files) \
                          { NamedAfter(p) : p \in DOMAIN remote0 } :
                /\ f \in DOMAIN files0 \cap DOMAIN files
                /\ files[f] = files0[f]

C8_Witness ==
    /\ Returned("backup")
    /\ \E p \in DOMAIN remote0 :
          /\ NamedAfter(p) \in DOMAIN files0
          /\ files0[NamedAfter(p)] # remote0[p]
    /\ \E p \in DOMAIN remote0 : Len(p) > 1
    /\ \E f \in DOMAIN files0 :
          f \notin { NamedAfter(p) : p \in DOMAIN remote0 }

(* C9: restorePolicies(dryRun=false) calls PutPolicy at most once for a   *)
(* name, only for a local name whose document the server lacks or holds   *)
(* differently, and with the local document; once it has returned nil it  *)
(* has called it for every such name.                                     *)
C9_PutWhenNeeded ==
    /\ cmd = "restore" /\ ~dryRun =>
          /\ Written \subseteq Stale
          /\ \A k \in CallsOf("PutPolicy") :
                /\ calls[k].doc = Local[calls[k].policy]
                /\ CallsFor("PutPolicy", calls[k].policy) = {k}
    /\ Returned("restore") => Written = Stale

C9_Witness ==
    /\ Returned("restore")
    /\ Written # {}
    /\ \E n \in DOMAIN Local : n \in DOMAIN remote0 /\ remote0[n] = Local[n]

(* C10: in restorePolicies no read follows a DeletePolicy or PutPolicy    *)
(* and no DeletePolicy follows a PutPolicy; before the first of them      *)
(* every policy of the server has been fetched and every .hcl file read;  *)
(* a failed read ends the command with an error and the server            *)
(* unchanged.                                                             *)
C10_ReadsThenDeletesThenPuts ==
    cmd = "restore" =>
        /\ \A k, l \in DOMAIN calls :
              k < l =>
                 /\ calls[k].op \in WriteOps => calls[l].op \notin ReadOps
                 /\ calls[k].op = "PutPolicy" => calls[l].op # "DeletePolicy"
        /\ Mutating # {} =>
              /\ \A n \in DOMAIN remote0 :
                    \E k \in CallsFor("GetPolicy", n) : calls[k].ok
              /\ \A f \in DOMAIN files0 :
                    f.ext = "hcl" =>
                       \E k \in CallsOf("ReadFile") :
                           calls[k].path = f /\ calls[k].ok
        /\ \A k \in DOMAIN calls :
              (calls[k].op \in ReadOps /\ ~calls[k].ok) =>
                  /\ Done
                  /\ err # "nil"
                  /\ remote = remote0
        /\ (Done /\ err # "nil") => remote = remote0

C10_Witness ==
    /\ cmd = "restore"
    /\ Done
    /\ \E k \in CallsOf("DeletePolicy"), l \in CallsOf("PutPolicy") : k < l
    /\ Cardinality(CallsOf("PutPolicy")) >= 2

====
